---------------------------- MODULE Spec2Model ----------------------------
(***************************************************************************)
(* A model of toml-env (src/src/lib.rs): the TomlKeyPath addressing        *)
(* scheme, insert_toml_value, the environment mapper initialize_env, the   *)
(* dotenv loader initialize_dotenv_toml and the merge orchestration of     *)
(* initialize.                                                             *)
(*                                                                         *)
(* Strings are sequences of one-character strings, so that prefix tests,   *)
(* splitting, lower-casing and number parsing are computed, not assumed.   *)
(* A toml::Value is a record [kind, v]: a Table carries a function from    *)
(* keys to values, an Array a sequence, a scalar its payload.              *)
(***************************************************************************)
EXTENDS Integers, Sequences, FiniteSets, TLC

VARIABLES
    tree,       \* SpecInsert: the toml::Value that insert_toml_value mutates
    last,       \* SpecInsert: the last call: tree before, path, value, result
    calls,      \* SpecInsert: number of calls made so far
    raw,        \* SpecCoerce: the string read from an environment variable
    coerced,    \* SpecCoerce: the toml::Value parse_toml_value made of it
    key_str,    \* SpecKeyPath: the string given to TomlKeyPath::from_str
    key_path,   \* SpecKeyPath: the Result<TomlKeyPath, ()> from_str returned
    key_display,    \* SpecKeyPath: the string Display made of the parsed path
    args,       \* Spec: the Args of the running initialize call
    files,      \* Spec: the file system, path |-> text of the file
    env,        \* Spec: the process environment, name |-> value
    pc,         \* Spec: the statement of initialize to run next
    config_env_config,  \* Spec: Option<(Value, ConfigSource)> of the config variable
    dotenv_config,      \* Spec: Option<(Value, ConfigSource)> of the dotenv file
    env_config,         \* Spec: Option<(Value, ConfigSource)> of initialize_env
    file_config,        \* Spec: Option<(Value, ConfigSource)> of config_path
    effective_map,      \* Spec: initialize_env's BTreeMap map_env after auto-discovery
    config,     \* Spec: the merged Option<(Value, ConfigSource)> so far
    result,     \* Spec: what initialize returned
    invocation, \* Spec: which call of initialize in this process is running
    entry_env   \* Spec: the process environment when the running call began

initVars == <<args, files, env, pc, config_env_config, dotenv_config, env_config,
              file_config, effective_map, config, result, invocation, entry_env>>
vars == <<tree, last, calls, raw, coerced, key_str, key_path, key_display, args, files, env, pc, config_env_config,
          dotenv_config, env_config, file_config, effective_map, config, result,
          invocation, entry_env>>
insertVars == <<tree, last, calls>>
coerceVars == <<raw, coerced>>
keyVars == <<key_str, key_path, key_display>>
callVars == <<invocation, entry_env>>

(***************************************************************************)
(* toml::Value                                                             *)
(***************************************************************************)
EmptyTable == [k \in {} |-> 0]

Table(f) == [kind |-> "Table", v |-> f]
Array(s) == [kind |-> "Array", v |-> s]
String(s) == [kind |-> "String", v |-> s]
Integer(i) == [kind |-> "Integer", v |-> i]
Float(x) == [kind |-> "Float", v |-> x]
Boolean(b) == [kind |-> "Boolean", v |-> b]
Datetime(s) == [kind |-> "Datetime", v |-> s]

IsTable(x) == x.kind = "Table"
IsArray(x) == x.kind = "Array"
IsScalar(x) == x.kind \in {"String", "Integer", "Float", "Boolean", "Datetime"}

\* Option<T>
None == [kind |-> "None"]
Some(x) == [kind |-> "Some", v |-> x]

\* The variables of a specification that does not use them
NoCall == [before |-> None, path |-> <<>>, value |-> None, res |-> None]
InsertIdle == tree = None /\ last = NoCall /\ calls = 0
CoerceIdle == raw = <<>> /\ coerced = None
KeyIdle == key_str = <<>> /\ key_path = None /\ key_display = None
InitializeIdle ==
    /\ args = None /\ files = EmptyTable /\ env = EmptyTable /\ pc = "idle"
    /\ config_env_config = None /\ dotenv_config = None /\ env_config = None
    /\ file_config = None /\ effective_map = EmptyTable /\ config = None /\ result = None
    /\ invocation = 0 /\ entry_env = EmptyTable

(***************************************************************************)
(* PathElement and TomlKeyPath                                             *)
(***************************************************************************)
TableProperty(p) == [kind |-> "TableProperty", name |-> p]
ArrayIndex(i) == [kind |-> "ArrayIndex", index |-> i]

\* TableInsert as Map::entry(property).or_insert(x): an existing key keeps its value.
TableInsert_KeepExisting(table, property, x) ==
    [k \in DOMAIN table \cup {property} |-> IF k \in DOMAIN table THEN table[k] ELSE x]

\* BTreeMap::insert on a toml::Table: add or replace one key.
TableInsert(table, property, x) ==
    [k \in DOMAIN table \cup {property} |-> IF k = property THEN x ELSE table[k]]

\* Vec::insert(index, x), index counted from 0: shifts the tail right.
VecInsert(array, index, x) ==
    SubSeq(array, 1, index) \o <<x>> \o SubSeq(array, index + 1, Len(array))

\* VecSet as Vec::insert: the element is added in front of the old one,
\* which moves right with the tail.
VecSet_Shifting(array, index, x) ==
    SubSeq(array, 1, index) \o <<x>> \o SubSeq(array, index + 1, Len(array))

\* *array.get_mut(index) = x
VecSet(array, index, x) == [array EXCEPT ![index + 1] = x]

RECURSIVE resolve_impl(_, _)
resolve_impl(key, value) ==
    IF key = <<>> THEN Some(value)
    ELSE LET current_key == Head(key) IN
         CASE IsTable(value) ->
                IF current_key.kind = "TableProperty"
                THEN IF current_key.name \in DOMAIN value.v
                     THEN resolve_impl(Tail(key), value.v[current_key.name])
                     ELSE None
                ELSE None
           [] IsArray(value) ->
                IF current_key.kind = "ArrayIndex"
                THEN IF current_key.index < Len(value.v)
                     THEN resolve_impl(Tail(key), value.v[current_key.index + 1])
                     ELSE None
                ELSE None
           [] OTHER -> None

resolve(key, value) == resolve_impl(key, value)

(***************************************************************************)
(* insert_toml_value.  The Rust function mutates `value` in place and      *)
(* returns a Result; the operator returns both the result and the value as *)
(* the call leaves it.  An `expect` on a missing entry or a Vec::insert    *)
(* past the end is the result "Panic".                                     *)
(***************************************************************************)
Ok == [kind |-> "Ok"]
Panic == [kind |-> "Panic"]
\* TablePropertyCannotIndex built with the other variant.
TablePropertyCannotIndex_WrongVariant(property, value) ==
    [kind |-> "ArrayIndexCannotIndex", index |-> 0, value |-> value]

TablePropertyCannotIndex(property, value) ==
    [kind |-> "TablePropertyCannotIndex", property |-> property, value |-> value]
ArrayIndexCannotIndex(index, value) ==
    [kind |-> "ArrayIndexCannotIndex", index |-> index, value |-> value]
ArrayOutOfBounds(index, array) ==
    [kind |-> "ArrayOutOfBounds", index |-> index, array |-> array]

InsertTomlValueErrors ==
    {"TablePropertyCannotIndex", "ArrayIndexCannotIndex", "ArrayOutOfBounds"}

\* NewChild that ignores the next key and always creates a Table.
NewChild_AlwaysTable(next_key) == Table(EmptyTable)

\* The container created for a missing child, chosen by the next key.
NewChild(next_key) ==
    IF next_key.kind = "ArrayIndex" THEN Array(<<>>) ELSE Table(EmptyTable)

\* IndexOutOfBounds with >= for >: index = length is rejected too.
IndexOutOfBounds_OffByOne(index, array) == index >= Len(array)

\* if index > array.len() { return Err(ArrayOutOfBounds) }
IndexOutOfBounds(index, array) == index > Len(array)

RECURSIVE insert_toml_value(_, _, _)
insert_toml_value(value, path, new_value) ==
    IF path = <<>> THEN [res |-> Ok, val |-> new_value]
    ELSE
    LET current_key == Head(path)
        rest == Tail(path)
        has_next == rest # <<>>
    IN
    IF current_key.kind = "TableProperty"
    THEN IF IsTable(value)
         THEN LET property == current_key.name
                  table == value.v
              IN
              IF property \notin DOMAIN table
              THEN IF ~has_next
                   THEN [res |-> Ok, val |-> Table(TableInsert(table, property, new_value))]
                   ELSE LET t1 == TableInsert(table, property, NewChild(Head(rest)))
                        IN IF property \notin DOMAIN t1
                           THEN [res |-> Panic, val |-> Table(t1)]
                           ELSE LET r == insert_toml_value(t1[property], rest, new_value)
                                IN [res |-> r.res,
                                    val |-> Table(TableInsert(t1, property, r.val))]
              ELSE IF ~has_next
                   THEN [res |-> Ok, val |-> Table(TableInsert(table, property, new_value))]
                   ELSE LET r == insert_toml_value(table[property], rest, new_value)
                        IN [res |-> r.res,
                            val |-> Table(TableInsert(table, property, r.val))]
         ELSE [res |-> TablePropertyCannotIndex(current_key.name, value), val |-> value]
    ELSE IF IsArray(value)
         THEN LET index == current_key.index
                  array == value.v
              IN
              IF IndexOutOfBounds(index, array)
              THEN [res |-> ArrayOutOfBounds(index, array), val |-> value]
              ELSE IF index >= Len(array)
                   THEN IF index > Len(array)
                        THEN [res |-> Panic, val |-> value]
                        ELSE IF ~has_next
                        THEN [res |-> Ok, val |-> Array(VecInsert(array, index, new_value))]
                        ELSE LET a1 == VecInsert(array, index, NewChild(Head(rest)))
                                 r == insert_toml_value(a1[index + 1], rest, new_value)
                             IN [res |-> r.res, val |-> Array(VecSet(a1, index, r.val))]
                   ELSE IF ~has_next
                        THEN [res |-> Ok, val |-> Array(VecSet(array, index, new_value))]
                        ELSE LET r == insert_toml_value(array[index + 1], rest, new_value)
                             IN [res |-> r.res, val |-> Array(VecSet(array, index, r.val))]
         ELSE [res |-> ArrayIndexCannotIndex(current_key.index, value), val |-> value]

(***************************************************************************)
(* Strings: sequences of one-character strings                             *)
(***************************************************************************)
Digits == <<"0", "1", "2", "3", "4", "5", "6", "7", "8", "9">>
UpperCase == <<"A", "B", "C", "D", "E", "F", "G", "H", "I", "J", "K", "L", "M",
               "N", "O", "P", "Q", "R", "S", "T", "U", "V", "W", "X", "Y", "Z">>
LowerCase == <<"a", "b", "c", "d", "e", "f", "g", "h", "i", "j", "k", "l", "m",
               "n", "o", "p", "q", "r", "s", "t", "u", "v", "w", "x", "y", "z">>

Range(f) == {f[i] : i \in DOMAIN f}
PosIn(c, seq) == CHOOSE i \in DOMAIN seq : seq[i] = c

IsDigit(c) == c \in Range(Digits)
DigitValue(c) == PosIn(c, Digits) - 1
AllDigits(s) == \A i \in 1..Len(s) : IsDigit(s[i])

\* The byte of a character, as far as the order of bytes goes: the ASCII
\* order of the characters the model uses.
AsciiOrder ==
    <<" ", "+", "-", ".">> \o Digits \o <<":", "=">> \o UpperCase \o <<"_">> \o LowerCase
Byte(c) == PosIn(c, AsciiOrder)

\* Ord for str: byte-wise lexicographic, a proper prefix is smaller.
RECURSIVE StrLess(_, _)
StrLess(a, b) ==
    IF b = <<>> THEN FALSE
    ELSE IF a = <<>> THEN TRUE
    ELSE IF Head(a) = Head(b) THEN StrLess(Tail(a), Tail(b))
    ELSE Byte(Head(a)) < Byte(Head(b))

\* str::to_lowercase
CharToLower(c) == IF c \in Range(UpperCase) THEN LowerCase[PosIn(c, UpperCase)] ELSE c
to_lowercase(s) == [i \in 1..Len(s) |-> CharToLower(s[i])]

\* str::starts_with, as `key.find(&prefix) == Some(0)`
StartsWith(s, prefix) ==
    Len(prefix) <= Len(s) /\ SubSeq(s, 1, Len(prefix)) = prefix

\* str::replace(from, to), leftmost non-overlapping matches; from is not empty
RECURSIVE replace(_, _, _)
replace(s, from, to) ==
    IF s = <<>> THEN <<>>
    ELSE IF StartsWith(s, from)
         THEN to \o replace(SubSeq(s, Len(from) + 1, Len(s)), from, to)
         ELSE <<Head(s)>> \o replace(Tail(s), from, to)

\* str::split(c): the segments between the occurrences of c, empty ones kept
RECURSIVE split(_, _)
split(s, c) ==
    IF \A i \in 1..Len(s) : s[i] # c THEN <<s>>
    ELSE LET i == CHOOSE j \in 1..Len(s) : s[j] = c /\ \A k \in 1..(j - 1) : s[k] # c
         IN <<SubSeq(s, 1, i - 1)>> \o split(SubSeq(s, i + 1, Len(s)), c)

RECURSIVE StripLeadingZeros(_)
StripLeadingZeros(d) ==
    IF Len(d) > 1 /\ Head(d) = "0" THEN StripLeadingZeros(Tail(d)) ELSE d

RECURSIVE DigitsValue(_)
DigitsValue(d) ==
    IF d = <<>> THEN 0 ELSE 10 * DigitsValue(SubSeq(d, 1, Len(d) - 1)) + DigitValue(d[Len(d)])

\* A digit string is at most the digit string max: decides overflow without
\* computing a number of more than 64 bits.
DigitsAtMost(d, max) ==
    LET n == StripLeadingZeros(d)
    IN Len(n) < Len(max) \/ (Len(n) = Len(max) /\ ~StrLess(max, n))

UsizeMax == <<"1", "8", "4", "4", "6", "7", "4", "4", "0", "7",
              "3", "7", "0", "9", "5", "5", "1", "6", "1", "5">>
I64Max == <<"9", "2", "2", "3", "3", "7", "2", "0", "3", "6",
            "8", "5", "4", "7", "7", "5", "8", "0", "7">>
I64MinMagnitude == <<"9", "2", "2", "3", "3", "7", "2", "0", "3", "6",
                     "8", "5", "4", "7", "7", "5", "8", "0", "8">>

HasSign(s) == s # <<>> /\ Head(s) \in {"+", "-"}
StripSign(s) == IF HasSign(s) THEN Tail(s) ELSE s

Err == [kind |-> "Err"]

\* usize::from_str: an optional "+", then digits, no overflow
usize_from_str(s) ==
    LET d == IF s # <<>> /\ Head(s) = "+" THEN Tail(s) ELSE s
    IN IF d # <<>> /\ AllDigits(d) /\ DigitsAtMost(d, UsizeMax)
       THEN [kind |-> "Ok", v |-> DigitsValue(d)]
       ELSE Err

\* i64::from_str: an optional sign, then digits, no overflow
i64_from_str(s) ==
    LET d == StripSign(s)
        neg == HasSign(s) /\ Head(s) = "-"
    IN IF d # <<>> /\ AllDigits(d) /\ DigitsAtMost(d, IF neg THEN I64MinMagnitude ELSE I64Max)
       THEN [kind |-> "Ok", v |-> IF neg THEN 0 - DigitsValue(d) ELSE DigitsValue(d)]
       ELSE Err

\* bool::from_str: exactly "true" or "false"
bool_from_str(s) ==
    IF s = <<"t", "r", "u", "e">> THEN [kind |-> "Ok", v |-> TRUE]
    ELSE IF s = <<"f", "a", "l", "s", "e">> THEN [kind |-> "Ok", v |-> FALSE]
    ELSE Err

\* Position of the first character of s that is in C, or 0.
FirstIn(s, C) ==
    IF \A i \in 1..Len(s) : s[i] \notin C THEN 0
    ELSE CHOOSE i \in 1..Len(s) : s[i] \in C /\ \A k \in 1..(i - 1) : s[k] \notin C

RECURSIVE Normalize(_, _)
Normalize(mant, exp) ==
    IF mant = 0 THEN [mant |-> 0, exp |-> 0]
    ELSE IF mant % 10 = 0 THEN Normalize(mant \div 10, exp + 1)
    ELSE [mant |-> mant, exp |-> exp]

\* An f64 as the decimal number it was read from: (-1)^neg * mant * 10^exp,
\* or one of the special values.
Finite(neg, mant, exp) ==
    LET n == Normalize(mant, exp)
    IN [class |-> "finite", neg |-> neg, mant |-> n.mant, exp |-> n.exp]
Special(neg, name) == [class |-> name, neg |-> neg, mant |-> 0, exp |-> 0]

\* f64::from_str: [sign] (digits [. digits] | . digits) [(e|E) [sign] digits],
\* or [sign] inf | infinity | nan in any letter case
f64_from_str(s) ==
    LET neg == HasSign(s) /\ Head(s) = "-"
        t == StripSign(s)
        e == FirstIn(t, {"e", "E"})
        mantissa == IF e = 0 THEN t ELSE SubSeq(t, 1, e - 1)
        exponent == IF e = 0 THEN <<>> ELSE SubSeq(t, e + 1, Len(t))
        dot == FirstIn(mantissa, {"."})
        ip == IF dot = 0 THEN mantissa ELSE SubSeq(mantissa, 1, dot - 1)
        fp == IF dot = 0 THEN <<>> ELSE SubSeq(mantissa, dot + 1, Len(mantissa))
        expDigits == StripSign(exponent)
        expValue == IF HasSign(exponent) /\ Head(exponent) = "-"
                    THEN 0 - DigitsValue(expDigits) ELSE DigitsValue(expDigits)
        decimal == /\ AllDigits(ip) /\ AllDigits(fp) /\ Len(ip) + Len(fp) >= 1
                   /\ e # 0 => (expDigits # <<>> /\ AllDigits(expDigits))
        low == to_lowercase(t)
    IN IF decimal
       THEN [kind |-> "Ok", v |-> Finite(neg, DigitsValue(ip \o fp), expValue - Len(fp))]
       ELSE IF low \in {<<"i", "n", "f">>, <<"i", "n", "f", "i", "n", "i", "t", "y">>}
       THEN [kind |-> "Ok", v |-> Special(neg, "inf")]
       ELSE IF low = <<"n", "a", "n">>
       THEN [kind |-> "Ok", v |-> Special(neg, "nan")]
       ELSE Err

TwoDigits(s, lo, hi) ==
    Len(s) = 2 /\ AllDigits(s) /\ DigitsValue(s) >= lo /\ DigitsValue(s) <= hi

\* full-date: YYYY-MM-DD
IsDate(s) ==
    /\ Len(s) = 10 /\ s[5] = "-" /\ s[8] = "-"
    /\ AllDigits(SubSeq(s, 1, 4))
    /\ TwoDigits(SubSeq(s, 6, 7), 1, 12)
    /\ TwoDigits(SubSeq(s, 9, 10), 1, 31)

\* partial-time: HH:MM:SS[.fraction]
IsTime(s) ==
    /\ Len(s) >= 8 /\ s[3] = ":" /\ s[6] = ":"
    /\ TwoDigits(SubSeq(s, 1, 2), 0, 23)
    /\ TwoDigits(SubSeq(s, 4, 5), 0, 59)
    /\ TwoDigits(SubSeq(s, 7, 8), 0, 60)
    /\ Len(s) > 8 => (s[9] = "." /\ Len(s) > 9 /\ AllDigits(SubSeq(s, 10, Len(s))))

\* time-offset: Z or (+|-)HH:MM
IsOffset(s) ==
    \/ s \in {<<"Z">>, <<"z">>}
    \/ /\ Len(s) = 6 /\ s[1] \in {"+", "-"} /\ s[4] = ":"
       /\ TwoDigits(SubSeq(s, 2, 3), 0, 23)
       /\ TwoDigits(SubSeq(s, 5, 6), 0, 59)

\* toml::value::Datetime::from_str: a date, a time, or a date and a time
\* separated by T, t or a space, with an optional offset
datetime_from_str(s) ==
    LET ok == \/ IsDate(s)
              \/ IsTime(s)
              \/ /\ Len(s) > 11
                 /\ IsDate(SubSeq(s, 1, 10))
                 /\ s[11] \in {"T", "t", " "}
                 /\ LET rest == SubSeq(s, 12, Len(s))
                        o == FirstIn(rest, {"Z", "z", "+", "-"})
                    IN IF o = 0 THEN IsTime(rest)
                       ELSE /\ IsTime(SubSeq(rest, 1, o - 1))
                            /\ IsOffset(SubSeq(rest, o, Len(rest)))
    IN IF ok THEN [kind |-> "Ok", v |-> s] ELSE Err

(***************************************************************************)
(* initialize_env::parse_toml_value: the scalar an environment variable's  *)
(* string becomes                                                          *)
(***************************************************************************)
\* parse_toml_value trying i64 before f64.
parse_toml_value_IntegerFirst(value) ==
    IF bool_from_str(value) # Err THEN Boolean(bool_from_str(value).v)
    ELSE IF i64_from_str(value) # Err THEN Integer(i64_from_str(value).v)
    ELSE IF f64_from_str(value) # Err THEN Float(f64_from_str(value).v)
    ELSE IF datetime_from_str(value) # Err THEN Datetime(datetime_from_str(value).v)
    ELSE String(value)

parse_toml_value(value) ==
    IF bool_from_str(value) # Err THEN Boolean(bool_from_str(value).v)
    ELSE IF f64_from_str(value) # Err THEN Float(f64_from_str(value).v)
    ELSE IF i64_from_str(value) # Err THEN Integer(i64_from_str(value).v)
    ELSE IF datetime_from_str(value) # Err THEN Datetime(datetime_from_str(value).v)
    ELSE String(value)

(***************************************************************************)
(* TomlKeyPath::from_str and Display                                       *)
(***************************************************************************)
\* One segment: ArrayIndex if usize::from_str accepts it, else TableProperty.
Segment(k) ==
    IF usize_from_str(k) # Err THEN ArrayIndex(usize_from_str(k).v) ELSE TableProperty(k)

\* filter_map that keeps the empty segments, as properties.
RECURSIVE FilterMapSegments_KeepEmpty(_)
FilterMapSegments_KeepEmpty(parts) ==
    IF parts = <<>> THEN <<>>
    ELSE <<Segment(Head(parts))>> \o FilterMapSegments_KeepEmpty(Tail(parts))

RECURSIVE FilterMapSegments(_)
FilterMapSegments(parts) ==
    IF parts = <<>> THEN <<>>
    ELSE IF Head(parts) = <<>> THEN FilterMapSegments(Tail(parts))
    ELSE <<Segment(Head(parts))>> \o FilterMapSegments(Tail(parts))

from_str(s) == IF s = <<>> THEN <<>> ELSE FilterMapSegments(split(s, "."))

\* usize, i64: Display
RECURSIVE NatToString(_)
NatToString(n) ==
    IF n < 10 THEN <<Digits[n + 1]>> ELSE NatToString(n \div 10) \o <<Digits[(n % 10) + 1]>>
IntToString(i) == IF i < 0 THEN <<"-">> \o NatToString(0 - i) ELSE NatToString(i)

\* Display for PathElement: the property as it is, the index in decimal
ElementToString(e) ==
    IF e.kind = "TableProperty" THEN e.name ELSE NatToString(e.index)

\* join that also ends the string with the separator.
RECURSIVE join_TrailingSeparator(_, _)
join_TrailingSeparator(parts, sep) ==
    IF parts = <<>> THEN <<>>
    ELSE Head(parts) \o sep \o join_TrailingSeparator(Tail(parts), sep)

\* [String]::join(sep)
RECURSIVE join(_, _)
join(parts, sep) ==
    IF parts = <<>> THEN <<>>
    ELSE IF Len(parts) = 1 THEN Head(parts)
    ELSE Head(parts) \o sep \o join(Tail(parts), sep)

\* Display for TomlKeyPath
KeyPathToString(path) ==
    join([i \in 1..Len(path) |-> ElementToString(path[i])], <<".">>)

(***************************************************************************)
(* The process environment: a function from the names of the variables     *)
(* that are set to their values.                                           *)
(***************************************************************************)
\* The names of a set of strings in the order of Ord for str (BTreeMap order).
RECURSIVE SortedNames(_)
SortedNames(S) ==
    IF S = {} THEN <<>>
    ELSE LET least == CHOOSE x \in S : \A y \in S \ {x} : StrLess(x, y)
         IN <<least>> \o SortedNames(S \ {least})

\* std::env::set_var
set_var(environment, key, value) ==
    [k \in DOMAIN environment \cup {key} |-> IF k = key THEN value ELSE environment[k]]

\* std::env::set_var panics on an empty key and on a key holding "=".
SetVarPanics(key) == key = <<>> \/ \E i \in 1..Len(key) : key[i] = "="

(***************************************************************************)
(* toml and serde_toml_merge, as far as initialize uses them               *)
(***************************************************************************)
RECURSIVE Repeat(_, _)
Repeat(c, n) == IF n <= 0 THEN <<>> ELSE <<c>> \o Repeat(c, n - 1)

\* f64: Display (no exponent form)
FloatToString(x) ==
    LET sign == IF x.neg THEN <<"-">> ELSE <<>>
        d == NatToString(x.mant)
    IN CASE x.class = "inf" -> sign \o <<"i", "n", "f">>
         [] x.class = "nan" -> <<"N", "a", "N">>
         [] x.exp >= 0 -> sign \o d \o Repeat("0", x.exp)
         [] Len(d) > 0 - x.exp ->
               sign \o SubSeq(d, 1, Len(d) + x.exp) \o <<".">>
                    \o SubSeq(d, Len(d) + x.exp + 1, Len(d))
         [] OTHER -> sign \o <<"0", ".">> \o Repeat("0", (0 - x.exp) - Len(d)) \o d

\* value.to_string() of a scalar, as initialize_dotenv_toml exports it
ValueToString(value) ==
    CASE value.kind = "String" -> value.v
      [] value.kind = "Integer" -> IntToString(value.v)
      [] value.kind = "Float" -> FloatToString(value.v)
      [] value.kind = "Boolean" ->
            IF value.v THEN <<"t", "r", "u", "e">> ELSE <<"f", "a", "l", "s", "e">>
      [] value.kind = "Datetime" -> value.v

\* serde_toml_merge::merge(value, other): tables merge key by key, arrays
\* are concatenated, for two scalars of one type `other` wins, any other
\* pair is an error.
RECURSIVE merge(_, _)
MergeTables(value, other) ==
    LET names == DOMAIN value \cup DOMAIN other
        merged == [n \in names |->
                     IF n \in DOMAIN value /\ n \in DOMAIN other
                     THEN merge(value[n], other[n])
                     ELSE IF n \in DOMAIN other THEN [kind |-> "Ok", v |-> other[n]]
                     ELSE [kind |-> "Ok", v |-> value[n]]]
    IN IF \E n \in names : merged[n] = Err THEN Err
       ELSE [kind |-> "Ok", v |-> Table([n \in names |-> merged[n].v])]

merge(value, other) ==
    CASE IsTable(value) /\ IsTable(other) -> MergeTables(value.v, other.v)
      [] IsArray(value) /\ IsArray(other) -> [kind |-> "Ok", v |-> Array(value.v \o other.v)]
      [] IsScalar(value) /\ value.kind = other.kind -> [kind |-> "Ok", v |-> other]
      [] OTHER -> Err

(***************************************************************************)
(* ConfigSource                                                            *)
(***************************************************************************)
DotEnv(path) == [kind |-> "DotEnv", path |-> path]
File(path) == [kind |-> "File", path |-> path]
Environment(variable_names) == [kind |-> "Environment", variable_names |-> variable_names]
Merged(from, into) == [kind |-> "Merged", from |-> from, into |-> into]

(***************************************************************************)
(* initialize_dotenv_toml.  The table of the file is walked in key order;  *)
(* a scalar entry is exported with set_var as soon as it is met, so an     *)
(* error at a later key leaves the earlier exports in the environment.     *)
(* The result carries the environment as the call leaves it.               *)
(***************************************************************************)
RECURSIVE DotenvEntries(_, _, _, _, _)
DotenvEntries(keys, table, config_variable_name, environment, found) ==
    IF keys = <<>> THEN [res |-> Ok, config |-> found, env |-> environment]
    ELSE
    LET key == Head(keys)
        value == table[key]
    IN CASE IsTable(value) ->
              IF key # config_variable_name
              THEN [res |-> [kind |-> "CannotParseTomlDotEnvFile", key |-> key],
                    config |-> None, env |-> environment]
              ELSE DotenvEntries(Tail(keys), table, config_variable_name,
                                 environment, Some(value))
         [] IsArray(value) ->
              [res |-> [kind |-> "CannotParseTomlDotEnvFile", key |-> key],
               config |-> None, env |-> environment]
         [] OTHER ->
              IF SetVarPanics(key)
              THEN [res |-> Panic, config |-> None, env |-> environment]
              ELSE DotenvEntries(Tail(keys), table, config_variable_name,
                                 set_var(environment, key, ValueToString(value)), found)

(***************************************************************************)
(* initialize_env                                                          *)
(***************************************************************************)
\* The key path auto-discovery gives a variable name that starts with prefix.
AutoKeyPath(key, prefix, divider) ==
    LET key_without_prefix == SubSeq(key, Len(prefix) + 1, Len(key))
        key_transformed == to_lowercase(key_without_prefix)
    IN from_str(replace(key_transformed, divider, <<".">>))

\* OrInsert as map_env.insert(key, toml_key): the discovered path replaces
\* the caller's.
OrInsert_Overwrite(map, key, toml_key) ==
    [k \in DOMAIN map \cup {key} |-> IF k = key THEN toml_key ELSE map[k]]

\* map_env.entry(key).or_insert(toml_key)
OrInsert(map, key, toml_key) ==
    IF key \in DOMAIN map THEN map
    ELSE [k \in DOMAIN map \cup {key} |-> IF k = key THEN toml_key ELSE map[k]]

\* The loop over std::env::vars_os(), the names met in the order `names`.
RECURSIVE AutoDiscover(_, _, _, _)
AutoDiscover(names, prefix, divider, map) ==
    IF names = <<>> THEN map
    ELSE LET key == Head(names)
         IN IF StartsWith(key, prefix)
            THEN AutoDiscover(Tail(names), prefix, divider,
                              OrInsert(map, key, AutoKeyPath(key, prefix, divider)))
            ELSE AutoDiscover(Tail(names), prefix, divider, map)

\* The BTreeMap map_env after the auto-discovery pass (lines 647-678).
EffectiveMap(map_env, auto_args, config_variable_name, names) ==
    IF auto_args = None THEN map_env
    ELSE LET prefix == (IF auto_args.v.prefix = None THEN config_variable_name
                        ELSE auto_args.v.prefix.v) \o auto_args.v.divider
         IN AutoDiscover(names, prefix, auto_args.v.divider, map_env)

\* The order in which the insertion loop walks the map: BTreeMap iteration.
IterationOrder(map) == SortedNames(DOMAIN map)

\* The loop `for (variable_name, toml_key) in map_env` (lines 702-715).
RECURSIVE InsertVariables(_, _, _, _)
InsertVariables(names, map, environment, built) ==
    IF names = <<>> THEN [res |-> Ok, val |-> built]
    ELSE LET variable_name == Head(names)
         IN IF variable_name \notin DOMAIN environment
            THEN InsertVariables(Tail(names), map, environment, built)
            ELSE LET value == parse_toml_value(environment[variable_name])
                     r == insert_toml_value(built, map[variable_name], value)
                 IN IF r.res = Ok
                    THEN InsertVariables(Tail(names), map, environment, r.val)
                    ELSE [res |-> r.res, val |-> r.val]

\* initialize_env: Ok(None) for an empty map, else the tree built from the
\* variables of the map that are set, or the first insertion error.
initialize_env(map_env, auto_args, config_variable_name, environment, names) ==
    LET map == EffectiveMap(map_env, auto_args, config_variable_name, names)
    IN IF DOMAIN map = {}
       THEN [res |-> Ok, value |-> None, map |-> map]
       ELSE LET r == InsertVariables(IterationOrder(map), map, environment,
                                     Table(EmptyTable))
            IN IF r.res = Ok
               THEN [res |-> Ok, value |-> Some(r.val), map |-> map]
               ELSE [res |-> r.res, value |-> None, map |-> map]

(***************************************************************************)
(* Spec: one call of initialize, statement by statement                    *)
(***************************************************************************)
MaxListLen == 11    \* most variables CONFIG__L__<i> set in one environment
MaxPermuted == 3    \* environments up to this size are enumerated in every order
MaxInvocations == 2 \* calls of initialize made in one process

\* DEFAULT_CONFIG_VARIABLE_NAME, DEFAULT_MAP_ENV_DIVIDER, DEFAULT_DOTENV_PATH
CONFIG == <<"C", "O", "N", "F", "I", "G">>
Divider == <<"_", "_">>
DotenvPath == <<".", "e", "n", "v", ".", "t", "o", "m", "l">>

\* Names and paths of the inputs
NameX == <<"X">>
NameB == <<"C", "O", "N", "F", "I", "G", "_", "_", "T", "_", "_", "B">>
NameA == <<"C", "O", "N", "F", "I", "G", "_", "_", "A">>
ConfigPath == <<"c", "o", "n", "f", "i", "g", ".", "t", "o", "m", "l">>
VarPath == <<"c", ".", "t", "o", "m", "l">>
ListName(i) == CONFIG \o Divider \o <<"L">> \o Divider \o NatToString(i)

\* The f64 tenths / 10
F(tenths) == Float(Finite(FALSE, tenths, -1))

\* The texts of the inputs
TextMalformed == <<"=">>
TextEmpty == <<>>
TextDotenvConfig == <<"[", "C", "O", "N", "F", "I", "G", "]", "\n", "a", "=", "1", ".", "5", "\n", "[", "C", "O", "N", "F", "I", "G", ".", "t", "]", "\n", "b", "=", "1", ".", "5">>
TextDotenvExport == <<"X", "=", "3">>
TextDotenvBoth == <<"C", "O", "N", "F", "I", "G", "_", "_", "T", "_", "_", "B", "=", "7", "\n", "X", "=", "\"", "s", "\"", "\n", "[", "C", "O", "N", "F", "I", "G", "]", "\n", "a", "=", "1", ".", "5", "\n", "[", "C", "O", "N", "F", "I", "G", ".", "t", "]", "\n", "b", "=", "1", ".", "5">>
TextDotenvArray == <<"L", "=", "[", "1", "]">>
TextDotenvTable == <<"[", "T", "]", "\n", "a", "=", "1">>
TextDotenvBadKey == <<"\"", "\"", "=", "1", "\n", "L", "=", "[", "1", "]">>
TextDotenvVariable == <<"C", "O", "N", "F", "I", "G", "=", "\"", "c", ".", "t", "o", "m", "l", "\"">>
TextInline == <<"a", "=", "2", ".", "5", "\n", "[", "t", "]", "\n", "b", "=", "2", ".", "5", "\n", "c", "=", "2", ".", "5">>
TextFile == <<"a", "=", "4", ".", "5", "\n", "d", "=", "4", ".", "5", "\n", "[", "t", "]", "\n", "c", "=", "4", ".", "5">>
TextFileString == <<"a", "=", "\"", "s", "\"">>

\* toml::from_str on the texts of the inputs: the Value of each text that is
\* a TOML document; every other text is a parse error.
DotenvTable == <<"a">> :> F(15) @@ <<"t">> :> Table(<<"b">> :> F(15))

TomlDocuments ==
    TextEmpty :> Table(EmptyTable)
    @@ TextDotenvConfig :> Table(CONFIG :> Table(DotenvTable))
    @@ TextDotenvExport :> Table(NameX :> Integer(3))
    @@ TextDotenvBoth :>
         Table(NameB :> Integer(7) @@ NameX :> String(<<"s">>) @@ CONFIG :> Table(DotenvTable))
    @@ TextDotenvArray :> Table(<<"L">> :> Array(<<Integer(1)>>))
    @@ TextDotenvTable :> Table(<<"T">> :> Table(<<"a">> :> Integer(1)))
    @@ TextDotenvBadKey :> Table(<<>> :> Integer(1) @@ <<"L">> :> Array(<<Integer(1)>>))
    @@ TextDotenvVariable :> Table(CONFIG :> String(VarPath))
    @@ TextInline :>
         Table(<<"a">> :> F(25) @@ <<"t">> :> Table(<<"b">> :> F(25) @@ <<"c">> :> F(25)))
    @@ TextFile :>
         Table(<<"a">> :> F(45) @@ <<"d">> :> F(45) @@ <<"t">> :> Table(<<"c">> :> F(45)))
    @@ TextFileString :> Table(<<"a">> :> String(<<"s">>))

toml_from_str(text) ==
    IF text \in DOMAIN TomlDocuments THEN [kind |-> "Ok", v |-> TomlDocuments[text]] ELSE Err

\* initialize_dotenv_toml(dotenv_path, config_variable_name, logging)
initialize_dotenv_toml(dotenv_path, config_variable_name, fs, environment) ==
    IF dotenv_path \notin DOMAIN fs
    THEN [res |-> Ok, config |-> None, env |-> environment]
    ELSE LET parsed == toml_from_str(fs[dotenv_path])
         IN IF parsed = Err
            THEN [res |-> [kind |-> "ErrorParsingTomlFile", path |-> dotenv_path],
                  config |-> None, env |-> environment]
            ELSE IF ~IsTable(parsed.v)
            THEN [res |-> [kind |-> "UnexpectedTomlDotEnvFileFormat", path |-> dotenv_path],
                  config |-> None, env |-> environment]
            ELSE IF DOMAIN parsed.v.v = {}
            THEN [res |-> Ok, config |-> None, env |-> environment]
            ELSE DotenvEntries(SortedNames(DOMAIN parsed.v.v), parsed.v.v,
                               config_variable_name, environment, None)

\* A source: the (Value, ConfigSource) pair
Sourced(value, source) == [value |-> value, source |-> source]

\* Option::map(|config| (config, source))
WithSource(option, source) ==
    IF option = None THEN None ELSE Some(Sourced(option.v, source))

\* MergeStep with the arguments of merge exchanged: merge(from.0, into.0).
MergeStep_ArgumentsExchanged(from, into) ==
    IF from = None THEN [res |-> Ok, config |-> into]
    ELSE IF into = None THEN [res |-> Ok, config |-> from]
    ELSE LET merged == merge(from.v.value, into.v.value)
         IN IF merged = Err
            THEN [res |-> [kind |-> "ErrorMerging", from |-> from.v.source,
                           into |-> into.v.source],
                  config |-> None]
            ELSE [res |-> Ok,
                  config |-> Some(Sourced(merged.v, Merged(from.v.source, into.v.source)))]

\* The match that folds the next source into the merged config (written
\* three times in initialize): serde_toml_merge::merge(into.0, from.0).
MergeStep(from, into) ==
    IF from = None THEN [res |-> Ok, config |-> into]
    ELSE IF into = None THEN [res |-> Ok, config |-> from]
    ELSE LET merged == merge(into.v.value, from.v.value)
         IN IF merged = Err
            THEN [res |-> [kind |-> "ErrorMerging", from |-> from.v.source,
                           into |-> into.v.source],
                  config |-> None]
            ELSE [res |-> Ok,
                  config |-> Some(Sourced(merged.v, Merged(from.v.source, into.v.source)))]

\* The config variable read without the file fallback: a value that is
\* not a document is an error at once.
ConfigVariableSource_NoFile(a, fs, environment) ==
    IF a.config_variable_name \notin DOMAIN environment
    THEN [res |-> Ok, config |-> None]
    ELSE LET variable_value == environment[a.config_variable_name]
             inline == toml_from_str(variable_value)
         IN IF inline # Err THEN [res |-> Ok, config |-> Some(inline.v)]
            ELSE [res |-> [kind |-> "ErrorParsingEnvironmentVariableAsConfigOrFile",
                           name |-> a.config_variable_name, value |-> variable_value],
                  config |-> None]

\* The config variable read (lines 733-790)
ConfigVariableSource(a, fs, environment) ==
    IF a.config_variable_name \notin DOMAIN environment
    THEN [res |-> Ok, config |-> None]
    ELSE LET variable_value == environment[a.config_variable_name]
             inline == toml_from_str(variable_value)
         IN IF inline # Err THEN [res |-> Ok, config |-> Some(inline.v)]
            ELSE IF variable_value \in DOMAIN fs
            THEN LET parsed == toml_from_str(fs[variable_value])
                 IN IF parsed = Err
                    THEN [res |-> [kind |-> "ErrorParsingTomlFile", path |-> variable_value],
                          config |-> None]
                    ELSE [res |-> Ok, config |-> Some(parsed.v)]
            ELSE [res |-> [kind |-> "ErrorParsingEnvironmentVariableAsConfigOrFile",
                           name |-> a.config_variable_name, value |-> variable_value],
                  config |-> None]

\* The explicit file read (lines 860-881)
FileSource(a, fs) ==
    IF a.config_path = None THEN [res |-> Ok, config |-> None]
    ELSE IF a.config_path.v \notin DOMAIN fs THEN [res |-> Ok, config |-> None]
    ELSE LET parsed == toml_from_str(fs[a.config_path.v])
         IN IF parsed = Err
            THEN [res |-> [kind |-> "ErrorParsingTomlFile", path |-> a.config_path.v],
                  config |-> None]
            ELSE [res |-> Ok, config |-> Some(Sourced(parsed.v, File(a.config_path.v)))]

RECURSIVE Orderings(_)
Orderings(S) ==
    IF S = {} THEN {<<>>}
    ELSE UNION {{<<x>> \o p : p \in Orderings(S \ {x})} : x \in S}

Reverse(seq) == [i \in 1..Len(seq) |-> seq[Len(seq) + 1 - i]]

\* The orders in which std::env::vars_os() may yield the names: every order
\* of a small environment, the two sorted orders of a larger one.
EnumerationOrders(S) ==
    IF Cardinality(S) <= MaxPermuted THEN Orderings(S)
    ELSE {SortedNames(S), Reverse(SortedNames(S))}

\* The map of the entries <<name, Option<value>>> whose value is set
Assign(entries) ==
    LET present == {e \in entries : e[2] # None}
    IN [k \in {e[1] : e \in present} |-> (CHOOSE e \in present : e[1] = k)[2].v]

\* Args::default() with the fields a caller sets
Args(config_path, explicit, auto_map_env) ==
    [dotenv_path |-> DotenvPath, config_path |-> config_path,
     config_variable_name |-> CONFIG, map_env |-> explicit,
     auto_map_env |-> auto_map_env]

\* AutoMapEnvArgs::default()
AutoMapEnvArgsDefault == [divider |-> Divider, prefix |-> None]

MapEnvChoices ==
    {EmptyTable,
     NameX :> from_str(<<"a">>),
     NameX :> from_str(<<"a">>) @@ NameB :> from_str(<<"t", ".", "c">>),
     NameX :> from_str(<<"a">>) @@ NameB :> from_str(<<"a">>),
     NameX :> from_str(<<>>)}
AutoMapEnvChoices == {None, Some(AutoMapEnvArgsDefault)}

Optional(S) == {None} \cup {Some(x) : x \in S}

DotenvTexts ==
    {TextEmpty, TextDotenvConfig, TextDotenvExport, TextDotenvBoth, TextDotenvArray,
     TextDotenvTable, TextDotenvBadKey, TextDotenvVariable, TextMalformed}
ConfigVariableValues == {TextInline, VarPath, TextMalformed}
VarFileTexts == {TextInline, TextMalformed}
ConfigFileTexts == {TextFile, TextFileString, TextMalformed}
XValues == {<<"3", ".", "5">>}
BValues == {<<"3", ".", "5">>}

\* initialize_env called before initialize_dotenv_toml.
StatementOrder_EnvBeforeDotenv ==
    <<"start", "env", "dotenv", "merge_dotenv", "merge_env", "file", "merge_file",
      "deserialize", "done">>

\* initialize_dotenv_toml called before the config variable is read.
StatementOrder_DotenvBeforeVariable ==
    <<"dotenv", "start", "merge_dotenv", "env", "merge_env", "file", "merge_file",
      "deserialize", "done">>

\* The statements of initialize in the order the function runs them.
StatementOrder ==
    <<"start", "dotenv", "merge_dotenv", "env", "merge_env", "file", "merge_file",
      "deserialize", "done">>

Following(at) == StatementOrder[PosIn(at, StatementOrder) + 1]

Locals ==
    /\ pc = StatementOrder[1]
    /\ invocation = 1 /\ entry_env = env
    /\ config_env_config = None /\ dotenv_config = None /\ env_config = None
    /\ file_config = None /\ effective_map = EmptyTable /\ config = None
    /\ result = None
    /\ InsertIdle /\ CoerceIdle /\ KeyIdle

\* Layered sources: each file and each variable present or absent.
InitSources ==
    \E dotenv \in Optional(DotenvTexts), cv \in Optional(ConfigVariableValues),
       path \in Optional({ConfigPath}), x \in Optional(XValues), b \in Optional(BValues),
       explicit \in MapEnvChoices, auto \in AutoMapEnvChoices :
      \E vf \in IF cv = Some(VarPath) THEN Optional(VarFileTexts) ELSE {None},
         cf \in IF path # None THEN Optional(ConfigFileTexts) ELSE {None} :
        /\ args = Args(path, explicit, auto)
        /\ files = Assign({<<DotenvPath, dotenv>>, <<VarPath, vf>>, <<ConfigPath, cf>>})
        /\ env = Assign({<<CONFIG, cv>>, <<NameX, x>>, <<NameB, b>>})

\* Array variables: CONFIG__L__0 .. CONFIG__L__(n-1) set, auto-discovered.
InitList ==
    \E n \in 0..MaxListLen, a \in Optional({<<"1">>}) :
        /\ args = Args(None, EmptyTable, Some(AutoMapEnvArgsDefault))
        /\ files = EmptyTable
        /\ env = Assign({<<ListName(i), Some(NatToString(i))>> : i \in 0..(n - 1)}
                        \cup {<<NameA, a>>})

Init == (InitSources \/ InitList) /\ Locals

Fail(error) ==
    /\ pc' = "done"
    /\ result' = [kind |-> "Err", error |-> error]

ReadConfigVariable ==
    /\ pc = "start"
    /\ LET r == ConfigVariableSource(args, files, env)
       IN IF r.res = Ok
          THEN /\ config_env_config' = WithSource(r.config, DotEnv(args.dotenv_path))
               /\ pc' = Following("start")
               /\ UNCHANGED result
          ELSE Fail(r.res) /\ UNCHANGED config_env_config
    /\ UNCHANGED <<args, files, env, dotenv_config, env_config, file_config,
                   effective_map, config, insertVars, coerceVars, keyVars, callVars>>

LoadDotenv ==
    /\ pc = "dotenv"
    /\ LET r == initialize_dotenv_toml(args.dotenv_path, args.config_variable_name,
                                       files, env)
       IN /\ env' = r.env
          /\ IF r.res = Ok
             THEN /\ dotenv_config' =
                       WithSource(r.config, Environment({args.config_variable_name}))
                  /\ pc' = Following("dotenv")
                  /\ UNCHANGED result
             ELSE Fail(r.res) /\ UNCHANGED dotenv_config
    /\ UNCHANGED <<args, files, config_env_config, env_config, file_config,
                   effective_map, config, insertVars, coerceVars, keyVars, callVars>>

\* The outcome of one of the three merge matches
Merge(at, from, into) ==
    /\ pc = at
    /\ LET r == MergeStep(from, into)
       IN IF r.res = Ok
          THEN config' = r.config /\ pc' = Following(at) /\ UNCHANGED result
          ELSE Fail(r.res) /\ UNCHANGED config
    /\ UNCHANGED <<args, files, env, config_env_config, dotenv_config, env_config,
                   file_config, effective_map, insertVars, coerceVars, keyVars, callVars>>

MergeDotenv == Merge("merge_dotenv", dotenv_config, config_env_config)

InitializeEnv ==
    /\ pc = "env"
    /\ \E names \in EnumerationOrders(DOMAIN env) :
         LET r == initialize_env(args.map_env, args.auto_map_env,
                                 args.config_variable_name, env, names)
         IN /\ effective_map' = r.map
            /\ IF r.res = Ok
               THEN /\ env_config' = WithSource(r.value, Environment(DOMAIN args.map_env))
                    /\ pc' = Following("env")
                    /\ UNCHANGED result
               ELSE Fail(r.res) /\ UNCHANGED env_config
    /\ UNCHANGED <<args, files, env, config_env_config, dotenv_config, file_config,
                   config, insertVars, coerceVars, keyVars, callVars>>

MergeEnv == Merge("merge_env", config, env_config)

LoadFile ==
    /\ pc = "file"
    /\ LET r == FileSource(args, files)
       IN IF r.res = Ok
          THEN file_config' = r.config /\ pc' = Following("file") /\ UNCHANGED result
          ELSE Fail(r.res) /\ UNCHANGED file_config
    /\ UNCHANGED <<args, files, env, config_env_config, dotenv_config, env_config,
                   effective_map, config, insertVars, coerceVars, keyVars, callVars>>

MergeFile == Merge("merge_file", config, file_config)

\* C::deserialize(config): whether the caller's type accepts the merged tree
\* is the caller's business; both outcomes are possible.
Deserialize ==
    /\ pc = "deserialize"
    /\ pc' = "done"
    /\ IF config = None
       THEN result' = [kind |-> "Ok", v |-> None]
       ELSE \E accepted \in BOOLEAN :
              result' = IF accepted
                        THEN [kind |-> "Ok", v |-> Some(config.v.value)]
                        ELSE [kind |-> "Err",
                              error |-> [kind |-> "ErrorParsingMergedToml",
                                         source |-> config.v.source]]
    /\ UNCHANGED <<args, files, env, config_env_config, dotenv_config, env_config,
                   file_config, effective_map, config, insertVars, coerceVars, keyVars, callVars>>

\* A later call of initialize in the same process, with the same Args: the
\* files and the environment are as the earlier call left them.
Again ==
    /\ pc = "done"
    /\ result # [kind |-> "Err", error |-> Panic]
    /\ invocation < MaxInvocations
    /\ invocation' = invocation + 1
    /\ entry_env' = env
    /\ pc' = StatementOrder[1]
    /\ config_env_config' = None /\ dotenv_config' = None /\ env_config' = None
    /\ file_config' = None /\ effective_map' = EmptyTable /\ config' = None
    /\ result' = None
    /\ UNCHANGED <<args, files, env, insertVars, coerceVars, keyVars>>

Next ==
    \/ ReadConfigVariable
    \/ LoadDotenv
    \/ MergeDotenv
    \/ InitializeEnv
    \/ MergeEnv
    \/ LoadFile
    \/ MergeFile
    \/ Deserialize
    \/ Again

Spec == Init /\ [][Next]_vars

(***************************************************************************)
(* SpecInsert: a tree built by successive calls of insert_toml_value       *)
(***************************************************************************)
MaxPathLen == 2     \* longest TomlKeyPath tried
MaxIndex == 1       \* largest array index tried
MaxCalls == 2       \* calls of insert_toml_value made on one tree

InsertKeys == {<<"a">>, <<"b">>}
InsertElements ==
    {TableProperty(k) : k \in InsertKeys} \cup {ArrayIndex(i) : i \in 0..MaxIndex}

RECURSIVE SeqsUpTo(_, _)
SeqsUpTo(S, n) ==
    IF n = 0 THEN {<<>>}
    ELSE LET shorter == SeqsUpTo(S, n - 1)
         IN shorter \cup {Append(s, x) : s \in {t \in shorter : Len(t) = n - 1}, x \in S}

InsertPaths == SeqsUpTo(InsertElements, MaxPathLen)
InsertValues == {String(<<"x">>), String(<<"y">>), Array(<<>>), Table(EmptyTable)}
InsertRoots ==
    {Table(EmptyTable), Array(<<>>), String(<<"H">>),
     Array(<<String(<<"p">>), String(<<"q">>)>>),
     Table([k \in InsertKeys |-> IF k = <<"a">> THEN String(<<"p">>) ELSE String(<<"q">>)])}

InitInsert ==
    /\ tree \in InsertRoots
    /\ last = NoCall
    /\ calls = 0
    /\ CoerceIdle
    /\ KeyIdle
    /\ InitializeIdle

\* One call insert_toml_value(&mut tree, path, new_value).
Insert(path, new_value) ==
    LET r == insert_toml_value(tree, path, new_value) IN
    /\ calls < MaxCalls
    /\ calls' = calls + 1
    /\ tree' = r.val
    /\ last' = [before |-> Some(tree), path |-> path, value |-> Some(new_value),
                res |-> r.res]
    /\ UNCHANGED <<coerceVars, keyVars, initVars>>

NextInsert == \E path \in InsertPaths, new_value \in InsertValues : Insert(path, new_value)

SpecInsert == InitInsert /\ [][NextInsert]_vars

Called == last.before # None
Before == last.before.v
Succeeded == Called /\ last.res = Ok

(***************************************************************************)
(* SpecCoerce: parse_toml_value applied to the value of one variable       *)
(***************************************************************************)
MaxStrLen == 4      \* longest string enumerated over CoerceAlphabet

CoerceAlphabet == {"t", "r", "u", "e", "1", "-", "."}
CoerceSamples ==
    {<<"f", "a", "l", "s", "e">>,
     <<"n", "a", "n">>,
     <<"i", "n", "f">>,
     <<"N", "a", "N">>,
     <<"+", "1">>,
     <<"0", "0", "7">>,
     <<"1", "e", "-", "2">>,
     <<"h", "e", "l", "l", "o">>,
     <<"T", "R", "U", "E">>,
     <<"1", "9", "7", "9", "-", "0", "5", "-", "2", "7">>,
     <<"0", "7", ":", "3", "2", ":", "0", "0">>,
     <<"1", "9", "7", "9", "-", "0", "5", "-", "2", "7", "T", "0", "7", ":", "3", "2", ":", "0", "0", "Z">>,
     <<"1", "9", "7", "9", "-", "0", "5", "-", "2", "7", " ", "0", "7", ":", "3", "2", ":", "0", "0">>,
     <<"1", "9", "7", "9", "-", "1", "3", "-", "2", "7">>,
     <<"1", "_", "0">>,
     <<"0", "x", "1", "F">>,
     <<" ", "1">>}
CoerceInputs == SeqsUpTo(CoerceAlphabet, MaxStrLen) \cup CoerceSamples

InitCoerce ==
    /\ raw \in CoerceInputs
    /\ coerced = None
    /\ InsertIdle
    /\ KeyIdle
    /\ InitializeIdle

\* let value = parse_toml_value(value);
Coerce ==
    /\ coerced = None
    /\ coerced' = Some(parse_toml_value(raw))
    /\ UNCHANGED <<raw, insertVars, keyVars, initVars>>

NextCoerce == Coerce

SpecCoerce == InitCoerce /\ [][NextCoerce]_vars

(***************************************************************************)
(* SpecKeyPath: a string parsed into a TomlKeyPath, the path displayed     *)
(***************************************************************************)
MaxKeyLen == 4      \* longest string enumerated over KeyAlphabet

KeyAlphabet == {"a", "0", "1", "+", "."}
KeySamples ==
    {<<"k", "e", "y", ".", "0", ".", "k", "e", "y">>,
     <<".", "k", "e", "y">>,
     <<"k", "e", "y", ".">>,
     <<"a", ".", ".", "b", ".", "2">>,
     <<"-", "1">>,
     <<"1", "8", "4", "4", "6", "7", "4", "4", "0", "7",
       "3", "7", "0", "9", "5", "5", "1", "6", "1", "6">>}
KeyInputs == SeqsUpTo(KeyAlphabet, MaxKeyLen) \cup KeySamples

InitKeyPath ==
    /\ key_str \in KeyInputs
    /\ key_path = None
    /\ key_display = None
    /\ InsertIdle
    /\ CoerceIdle
    /\ InitializeIdle

\* s.parse::<TomlKeyPath>(): from_str has no Err return.
Parse ==
    /\ key_path = None
    /\ key_path' = [kind |-> "Ok", v |-> from_str(key_str)]
    /\ UNCHANGED <<key_str, key_display, insertVars, coerceVars, initVars>>

\* key_path.to_string()
Display ==
    /\ key_path # None
    /\ key_display = None
    /\ key_display' = Some(KeyPathToString(key_path.v))
    /\ UNCHANGED <<key_str, key_path, insertVars, coerceVars, initVars>>

NextKeyPath == Parse \/ Display

SpecKeyPath == InitKeyPath /\ [][NextKeyPath]_vars

(***************************************************************************)
(* Properties of insert_toml_value (SpecInsert)                            *)
(***************************************************************************)
Prefix(path, n) == SubSeq(path, 1, n)

\* The node the call reached before consuming segment k of its path, if the
\* tree before the call had one there.
NodeBefore(k) == resolve(Prefix(last.path, k - 1), Before)

\* C7: after a successful insert of v at path p, resolve(p) on the resulting
\* tree returns exactly v; with the empty path v replaces the whole root.
C7_InsertThenResolve ==
    Succeeded => /\ resolve(last.path, tree) = Some(last.value.v)
                 /\ last.path = <<>> => tree = last.value.v

C7_Witness ==
    /\ Succeeded
    /\ Len(last.path) = 2
    /\ Before = Table(EmptyTable)
    /\ resolve(last.path, tree) = Some(String(<<"x">>))

\* C8: a missing table key, or a missing array element at index = length,
\* with more segments to come is created as an empty Array when the next
\* segment is an ArrayIndex and as an empty Table when it is a TableProperty,
\* and the insert continues inside it: "a.b" and "a.0" into an empty table
\* give {a={b=v}} and {a=[v]}.
C8_AutoVivification ==
    Called =>
      /\ \A k \in 1..(Len(last.path) - 1) :
           LET node == NodeBefore(k)
               seg == last.path[k]
               next == last.path[k + 1]
               missing ==
                  /\ node # None
                  /\ \/ /\ IsTable(node.v)
                        /\ seg.kind = "TableProperty"
                        /\ seg.name \notin DOMAIN node.v.v
                     \/ /\ IsArray(node.v)
                        /\ seg.kind = "ArrayIndex"
                        /\ seg.index = Len(node.v.v)
               child == resolve(Prefix(last.path, k), tree)
           IN missing =>
                /\ child # None
                /\ child.v.kind = IF next.kind = "ArrayIndex" THEN "Array" ELSE "Table"
                /\ (k + 1 = Len(last.path) /\ next.kind = "TableProperty") =>
                      /\ last.res = Ok
                      /\ child.v = Table([n \in {next.name} |-> last.value.v])
                /\ (k + 1 = Len(last.path) /\ next.kind = "ArrayIndex" /\ next.index = 0) =>
                      /\ last.res = Ok
                      /\ child.v = Array(<<last.value.v>>)

C8_Witness ==
    /\ Succeeded
    /\ Before = Table(EmptyTable)
    /\ last.path = <<TableProperty(<<"a">>), ArrayIndex(0)>>
    /\ tree = Table([n \in {<<"a">>} |-> Array(<<last.value.v>>)])

\* C9: an ArrayIndex i applied to an Array of length n fails with
\* ArrayOutOfBounds when i > n; as the last segment, i = n appends (length
\* n + 1) and i < n overwrites element i only (length n); the array never
\* grows by more than one element in a call.
C9_ArrayIndexBounds ==
    Called =>
      \A k \in 1..Len(last.path) :
        LET node == NodeBefore(k)
            seg == last.path[k]
            after == resolve(Prefix(last.path, k - 1), tree)
            isLast == k = Len(last.path)
        IN (node # None /\ IsArray(node.v) /\ seg.kind = "ArrayIndex") =>
             LET n == Len(node.v.v)
                 i == seg.index
             IN /\ after # None /\ IsArray(after.v)
                /\ Len(after.v.v) \in {n, n + 1}
                /\ i > n => /\ last.res = [kind |-> "ArrayOutOfBounds",
                                            index |-> i, array |-> node.v.v]
                            /\ after = node
                /\ i <= n => last.res.kind # "ArrayOutOfBounds" \/ ~isLast
                /\ (i = n /\ isLast) => /\ last.res = Ok
                                        /\ after.v.v = Append(node.v.v, last.value.v)
                /\ (i < n /\ isLast) =>
                      /\ last.res = Ok
                      /\ after.v.v = [node.v.v EXCEPT ![i + 1] = last.value.v]

C9_Witness ==
    /\ Succeeded
    /\ Before = Array(<<String(<<"p">>), String(<<"q">>)>>)
    /\ last.path = <<ArrayIndex(0)>>
    /\ tree = Array(<<String(<<"x">>), String(<<"q">>)>>)

\* C10: a TableProperty segment on a node that is not a Table returns
\* TablePropertyCannotIndex, an ArrayIndex segment on a node that is not an
\* Array returns ArrayIndexCannotIndex; every call returns Ok or one of the
\* three InsertTomlValueError variants (no panic); and no container on the
\* way to the target changes from Table to Array or back.
C10_StructuralMismatch ==
    Called =>
      /\ last.res.kind \in {"Ok"} \cup InsertTomlValueErrors
      /\ \A k \in 1..Len(last.path) :
           LET node == NodeBefore(k)
               seg == last.path[k]
               after == resolve(Prefix(last.path, k - 1), tree)
           IN node # None =>
                /\ (seg.kind = "TableProperty" /\ ~IsTable(node.v)) =>
                      last.res = [kind |-> "TablePropertyCannotIndex",
                                  property |-> seg.name, value |-> node.v]
                /\ (seg.kind = "ArrayIndex" /\ ~IsArray(node.v)) =>
                      last.res = [kind |-> "ArrayIndexCannotIndex",
                                  index |-> seg.index, value |-> node.v]
                /\ IsTable(node.v) => (after # None /\ IsTable(after.v))
                /\ IsArray(node.v) => (after # None /\ IsArray(after.v))

C10_Witness ==
    /\ Called
    /\ Len(last.path) = 2
    /\ last.res.kind = "TablePropertyCannotIndex"
    /\ NodeBefore(2) # None
    /\ IsArray(NodeBefore(2).v)
    /\ tree = Before

(***************************************************************************)
(* Properties of parse_toml_value (SpecCoerce)                             *)
(***************************************************************************)
ParsesAsBool == bool_from_str(raw) # Err
ParsesAsFloat == f64_from_str(raw) # Err
ParsesAsInteger == i64_from_str(raw) # Err
ParsesAsDatetime == datetime_from_str(raw) # Err

\* C6: the scalar is a Boolean if the string parses as a boolean, else a
\* Float if it parses as a float, else an Integer if it parses as an integer,
\* else a Datetime if it parses as a timestamp, else the String itself; so
\* "1" becomes a Float, and an Integer results only from a string that
\* fails the boolean and the float parse.
C6_CoercionOrder ==
    coerced # None =>
      LET k == coerced.v.kind IN
      /\ k = "Boolean" <=> ParsesAsBool
      /\ k = "Float" <=> (~ParsesAsBool /\ ParsesAsFloat)
      /\ k = "Integer" <=> (~ParsesAsBool /\ ~ParsesAsFloat /\ ParsesAsInteger)
      /\ k = "Datetime" <=>
            (~ParsesAsBool /\ ~ParsesAsFloat /\ ~ParsesAsInteger /\ ParsesAsDatetime)
      /\ k = "String" <=>
            (~ParsesAsBool /\ ~ParsesAsFloat /\ ~ParsesAsInteger /\ ~ParsesAsDatetime)
      /\ k = "String" => coerced.v.v = raw
      /\ raw = <<"1">> => k = "Float"

C6_Witness ==
    /\ raw = <<"1">>
    /\ coerced # None
    /\ coerced.v.kind = "Float"
    /\ ParsesAsInteger

(***************************************************************************)
(* Properties of initialize (Spec)                                         *)
(***************************************************************************)
\* The table keys at which the documents of the model hold scalar leaves
LeafPaths ==
    {from_str(<<"a">>), from_str(<<"d">>), from_str(<<"t", ".", "b">>),
     from_str(<<"t", ".", "c">>)}

\* All three merges have run and succeeded: config is the final merged tree.
AllMerged == pc = "deserialize"

\* The scalar a source holds at a key path, if any
ScalarAt(source, q) ==
    IF source = None THEN None
    ELSE LET found == resolve(q, source.v.value)
         IN IF found # None /\ IsScalar(found.v) THEN found ELSE None

\* In `order`, a sequence of sources from the lowest precedence to the
\* highest, the final tree holds at each leaf key the scalar of the last
\* source that defines it.
LastDefinitionWins(order) ==
    \A q \in LeafPaths :
      LET defining == {i \in 1..Len(order) : ScalarAt(order[i], q) # None}
      IN defining # {} =>
           /\ config # None
           /\ resolve(q, config.v.value) =
                ScalarAt(order[CHOOSE i \in defining : \A j \in defining : j <= i], q)

MappedNames ==
    DOMAIN EffectiveMap(args.map_env, args.auto_map_env, args.config_variable_name,
                        SortedNames(DOMAIN env))

\* No source can yield a value: no dotenv file, config variable unset,
\* config_path unset or no such file, no mapped variable set.
NoSourceYields ==
    /\ args.dotenv_path \notin DOMAIN files
    /\ args.config_variable_name \notin DOMAIN env
    /\ args.config_path = None \/ args.config_path.v \notin DOMAIN files
    /\ MappedNames \cap DOMAIN env = {}

\* C2 as stated: when no source yields a value, initialize returns Ok(None)
\* without attempting deserialization, whether map_env is empty or not.
C2_AsStated ==
    (pc = "done" /\ NoSourceYields) => result = [kind |-> "Ok", v |-> None]

\* initialize_env has returned Ok, the next statement has not run yet.
MapperReturned == pc = Following("env")

\* initialize_env has returned an error of the insertion engine.
MapperFailed ==
    /\ pc = "done"
    /\ result.kind = "Err"
    /\ result.error.kind \in InsertTomlValueErrors

\* The mapper has returned a tree.
Mapped == MapperReturned /\ env_config # None

\* The variables CONFIG__L__<i> that are set
ListPrefix == CONFIG \o Divider \o <<"L">> \o Divider
ListLength == Cardinality({k \in DOMAIN env : StartsWith(k, ListPrefix)})

\* C3 as stated: with CONFIG__L__0 .. CONFIG__L__(n-1) set, n >= 1, the
\* mapper returns without ArrayOutOfBounds an array of n elements, element i
\* from variable i, whatever the order of enumeration.
C3_AsStated ==
    (ListLength >= 1 /\ (MapperReturned \/ MapperFailed)) =>
      /\ env_config # None
      /\ resolve(from_str(<<"l">>), env_config.v.value) =
           Some(Array([i \in 1..ListLength |-> parse_toml_value(env[ListName(i - 1)])]))

\* The scalar entries of the dotenv file, which a successful load exports
DotenvScalars ==
    IF args.dotenv_path \notin DOMAIN files \/ toml_from_str(files[args.dotenv_path]) = Err
    THEN EmptyTable
    ELSE LET table == toml_from_str(files[args.dotenv_path]).v.v
         IN [k \in {n \in DOMAIN table : IsScalar(table[n])} |-> table[k]]

IsPrefixOf(p, q) == Len(p) <= Len(q) /\ SubSeq(q, 1, Len(p)) = p


\* A variable that is set, is walked after `name` and writes at the key path
\* of `name` or above it.
OverwrittenLater(name) ==
    \E other \in (DOMAIN effective_map \cap DOMAIN env) \ {name} :
       /\ StrLess(name, other)
       /\ IsPrefixOf(effective_map[other], effective_map[name])

\* C4 as stated: every scalar the dotenv file exports under a mapped name
\* is, coerced, at that name's key path in the mapper's tree of the same
\* call.
C4_AsStated ==
    Mapped =>
      \A name \in DOMAIN DotenvScalars \cap DOMAIN effective_map :
         resolve(effective_map[name], env_config.v.value) =
           Some(parse_toml_value(ValueToString(DotenvScalars[name])))

\* C4 amended: the dotenv file is loaded and its scalars exported before the
\* mapper enumerates or reads the environment, so every scalar exported
\* under a mapped name is, coerced, at that name's key path in the mapper's
\* tree of the same call, unless a set variable later in name order is
\* mapped to that path or to a prefix of it.
C4_DotenvBeforeMapping ==
    Mapped =>
      \A name \in DOMAIN DotenvScalars \cap DOMAIN effective_map :
         ~OverwrittenLater(name) =>
            resolve(effective_map[name], env_config.v.value) =
              Some(parse_toml_value(ValueToString(DotenvScalars[name])))

\* A scalar that only the dotenv file sets is found by auto-discovery.
C4_Witness ==
    /\ Mapped
    /\ NameB \in DOMAIN DotenvScalars
    /\ NameB \notin DOMAIN args.map_env
    /\ NameB \in DOMAIN effective_map
    /\ resolve(effective_map[NameB], env_config.v.value) = Some(Float(Finite(FALSE, 7, 0)))

\* The prefix of auto-discovery
AutoPrefix ==
    (IF args.auto_map_env.v.prefix = None THEN args.config_variable_name
     ELSE args.auto_map_env.v.prefix.v) \o args.auto_map_env.v.divider

\* The names that are both keys of the caller's map and under the prefix
DoublyMapped ==
    IF args.auto_map_env = None THEN {}
    ELSE {name \in DOMAIN args.map_env \cap DOMAIN env : StartsWith(name, AutoPrefix)}

\* C5: the effective map keeps the caller's key path for every name of
\* map_env, auto-discovery only adds the names under the prefix that
\* map_env lacks; the value of a name that is both in map_env and under the
\* prefix goes to the caller's path and not to the discovered one.
C5_ExplicitBeforeAuto ==
    (MapperReturned \/ MapperFailed) =>
      /\ \A name \in DOMAIN args.map_env :
            name \in DOMAIN effective_map /\ effective_map[name] = args.map_env[name]
      /\ \A name \in DOMAIN effective_map \ DOMAIN args.map_env :
            /\ args.auto_map_env # None
            /\ name \in DOMAIN env
            /\ StartsWith(name, AutoPrefix)
            /\ effective_map[name] =
                 from_str(replace(to_lowercase(SubSeq(name, Len(AutoPrefix) + 1, Len(name))),
                                  args.auto_map_env.v.divider, <<".">>))
      /\ \A name \in DoublyMapped :
            LET discovered ==
                  from_str(replace(to_lowercase(SubSeq(name, Len(AutoPrefix) + 1, Len(name))),
                                   args.auto_map_env.v.divider, <<".">>))
            IN (Mapped /\ discovered # args.map_env[name]) =>
                 /\ ~OverwrittenLater(name) =>
                       resolve(args.map_env[name], env_config.v.value) =
                         Some(parse_toml_value(env[name]))
                 /\ resolve(discovered, env_config.v.value) = None

C5_Witness ==
    /\ Mapped
    /\ NameB \in DoublyMapped
    /\ effective_map[NameB] = from_str(<<"t", ".", "c">>)
    /\ resolve(from_str(<<"t", ".", "c">>), env_config.v.value) = Some(F(35))
    /\ resolve(from_str(<<"t", ".", "b">>), env_config.v.value) = None

(***************************************************************************)
(* Properties of TomlKeyPath::from_str and Display (SpecKeyPath)           *)
(***************************************************************************)
\* The maximal runs of characters other than "." in s, as <<first, last>>
SegmentBounds(s) ==
    {b \in (1..Len(s)) \X (1..Len(s)) :
        /\ b[1] <= b[2]
        /\ \A k \in b[1]..b[2] : s[k] # "."
        /\ b[1] = 1 \/ s[b[1] - 1] = "."
        /\ b[2] = Len(s) \/ s[b[2] + 1] = "."}

\* The non-empty segments of s between dots, from left to right
RECURSIVE InOrder(_, _)
InOrder(s, bounds) ==
    IF bounds = {} THEN <<>>
    ELSE LET first == CHOOSE b \in bounds : \A c \in bounds : b[1] <= c[1]
         IN <<SubSeq(s, first[1], first[2])>> \o InOrder(s, bounds \ {first})
NonEmptySegments(s) == InOrder(s, SegmentBounds(s))

\* No segment of s is empty: no dot first, last or next to another dot.
NoEmptySegment(s) ==
    /\ s # <<>>
    /\ s[1] # "." /\ s[Len(s)] # "."
    /\ \A i \in 1..(Len(s) - 1) : ~(s[i] = "." /\ s[i + 1] = ".")

\* The segment is a decimal number no larger than usize::MAX, with an
\* optional "+" in front: what parses as an index.
ParsesAsIndex(seg) ==
    LET d == IF Head(seg) = "+" THEN Tail(seg) ELSE seg
    IN d # <<>> /\ AllDigits(d) /\ DigitsAtMost(d, UsizeMax)

\* The segment is the decimal form Display gives an index: digits only, no
\* leading zero but for "0" itself.
CanonicalIndex(seg) == AllDigits(seg) /\ (Len(seg) = 1 \/ Head(seg) # "0")

Displayed == key_display # None

\* C11 as stated: for every non-empty dotted string s in which no segment
\* is empty, displaying the KeyPath parsed from s gives back exactly s.
C11_AsStated ==
    (Displayed /\ NoEmptySegment(key_str)) => key_display.v = key_str

\* C11 amended: for every non-empty dotted string s in which no segment is
\* empty and every segment that parses as an index is written in canonical
\* decimal form (no "+" in front, no leading zeros), displaying the KeyPath
\* parsed from s gives back exactly s.
C11_RoundTrip ==
    (/\ Displayed
     /\ NoEmptySegment(key_str)
     /\ \A i \in 1..Len(NonEmptySegments(key_str)) :
           ParsesAsIndex(NonEmptySegments(key_str)[i]) =>
             CanonicalIndex(NonEmptySegments(key_str)[i]))
      => key_display.v = key_str

C11_Witness ==
    /\ Displayed
    /\ key_str = <<"a", ".", "1", "0">>
    /\ key_path.v = <<TableProperty(<<"a">>), ArrayIndex(10)>>
    /\ key_display.v = key_str

Parsed == key_path # None

\* C12 as stated: parse never fails; the empty string gives the empty path;
\* the result is the sequence, in order, of the non-empty segments between
\* dots, each purely numeric segment an ArrayIndex and every other one a
\* TableProperty.
C12_AsStated ==
    Parsed =>
      /\ key_path.kind = "Ok"
      /\ key_str = <<>> => key_path.v = <<>>
      /\ Len(key_path.v) = Len(NonEmptySegments(key_str))
      /\ \A i \in 1..Len(key_path.v) :
           LET seg == NonEmptySegments(key_str)[i]
           IN IF AllDigits(seg)
              THEN /\ key_path.v[i].kind = "ArrayIndex"
                   /\ NatToString(key_path.v[i].index) = StripLeadingZeros(seg)
              ELSE key_path.v[i] = [kind |-> "TableProperty", name |-> seg]

\* C12 amended: parse never fails; the empty string gives the empty path;
\* the result is the sequence, in order, of the non-empty segments between
\* dots, each segment that is a decimal number no larger than usize::MAX,
\* with an optional "+" in front, an ArrayIndex of that number and every
\* other one a TableProperty.
C12_LenientParse ==
    Parsed =>
      /\ key_path.kind = "Ok"
      /\ key_str = <<>> => key_path.v = <<>>
      /\ Len(key_path.v) = Len(NonEmptySegments(key_str))
      /\ \A i \in 1..Len(key_path.v) :
           LET seg == NonEmptySegments(key_str)[i]
           IN IF ParsesAsIndex(seg)
              THEN /\ key_path.v[i].kind = "ArrayIndex"
                   /\ NatToString(key_path.v[i].index) =
                        StripLeadingZeros(IF Head(seg) = "+" THEN Tail(seg) ELSE seg)
              ELSE key_path.v[i] = [kind |-> "TableProperty", name |-> seg]

C12_Witness ==
    /\ Parsed
    /\ key_str = <<"a", ".", ".", "b", ".", "2">>
    /\ key_path = [kind |-> "Ok",
                   v |-> <<[kind |-> "TableProperty", name |-> <<"a">>],
                           [kind |-> "TableProperty", name |-> <<"b">>],
                           [kind |-> "ArrayIndex", index |-> 2]>>]

(***************************************************************************)
(* Properties of the sources of initialize (Spec)                          *)
(***************************************************************************)
\* The dotenv file exists and its text is a document with a table on top.
DotenvFileTable ==
    IF args.dotenv_path \in DOMAIN files /\ toml_from_str(files[args.dotenv_path]) # Err
       /\ IsTable(toml_from_str(files[args.dotenv_path]).v)
    THEN Some(toml_from_str(files[args.dotenv_path]).v.v)
    ELSE None

\* initialize_dotenv_toml has returned Ok, the next statement has not run.
DotenvReturned == pc = Following("dotenv")

\* initialize_dotenv_toml did not return Ok: initialize ended in it.
DotenvFailed ==
    /\ pc = "done"
    /\ result.kind = "Err"
    /\ \/ result.error.kind \in {"CannotParseTomlDotEnvFile", "UnexpectedTomlDotEnvFileFormat",
                                 "Panic"}
       \/ /\ result.error.kind = "ErrorParsingTomlFile"
          /\ result.error.path = args.dotenv_path

\* The keys of a dotenv table the format forbids: arrays, tables of another
\* name than config_variable_name
Disallowed(table) ==
    {k \in DOMAIN table :
        IsArray(table[k]) \/ (IsTable(table[k]) /\ k # args.config_variable_name)}

\* C13 as stated: a dotenv path that does not exist gives None without
\* error; an array or a table of another name than config_variable_name in
\* the file makes the load return CannotParseTomlDotEnvFile, never panic;
\* otherwise every scalar entry is in the environment under its key in its
\* string form and the table config_variable_name, if any, is the config
\* returned.
C13_AsStated ==
    (DotenvReturned \/ DotenvFailed) =>
      /\ args.dotenv_path \notin DOMAIN files =>
           DotenvReturned /\ dotenv_config = None
      /\ DotenvFileTable # None =>
           LET table == DotenvFileTable.v
           IN IF Disallowed(table) # {}
              THEN /\ DotenvFailed
                   /\ result.error.kind = "CannotParseTomlDotEnvFile"
              ELSE /\ DotenvReturned
                   /\ \A k \in DOMAIN table :
                        IsScalar(table[k]) =>
                          k \in DOMAIN env /\ env[k] = ValueToString(table[k])
                   /\ IF /\ args.config_variable_name \in DOMAIN table
                         /\ IsTable(table[args.config_variable_name])
                      THEN /\ dotenv_config # None
                           /\ dotenv_config.v.value = table[args.config_variable_name]
                      ELSE dotenv_config = None

\* The config variable has been read and yielded a source or None.
ConfigVariableRead == pc = Following("start")

\* initialize ended in the read of the config variable.
ConfigVariableFailed ==
    /\ pc = "done"
    /\ result.kind = "Err"
    /\ args.config_variable_name \in DOMAIN env
    /\ \/ result.error.kind = "ErrorParsingEnvironmentVariableAsConfigOrFile"
       \/ /\ result.error.kind = "ErrorParsingTomlFile"
          /\ result.error.path = env[args.config_variable_name]

\* C14: the config variable unset gives no source and no error; a value
\* that is a document gives that document; a value that is not a document
\* and names a file gives the document of that file, or ErrorParsingTomlFile
\* with its path; any other value gives
\* ErrorParsingEnvironmentVariableAsConfigOrFile with the name and the value.
C14_ConfigVariableSource ==
    (ConfigVariableRead \/ ConfigVariableFailed) =>
      IF args.config_variable_name \notin DOMAIN env
      THEN ConfigVariableRead /\ config_env_config = None
      ELSE LET value == env[args.config_variable_name]
           IN IF value \in DOMAIN TomlDocuments
              THEN /\ ConfigVariableRead
                   /\ config_env_config # None
                   /\ config_env_config.v.value = TomlDocuments[value]
              ELSE IF value \in DOMAIN files
              THEN IF files[value] \in DOMAIN TomlDocuments
                   THEN /\ ConfigVariableRead
                        /\ config_env_config # None
                        /\ config_env_config.v.value = TomlDocuments[files[value]]
                   ELSE /\ ConfigVariableFailed
                        /\ result.error.kind = "ErrorParsingTomlFile"
                        /\ result.error.path = value
              ELSE /\ ConfigVariableFailed
                   /\ result.error = [kind |-> "ErrorParsingEnvironmentVariableAsConfigOrFile",
                                      name |-> args.config_variable_name, value |-> value]

\* The variable names a file, and the document of the file is the source.
C14_Witness ==
    /\ ConfigVariableRead
    /\ args.config_variable_name \in DOMAIN env
    /\ env[args.config_variable_name] = VarPath
    /\ VarPath \in DOMAIN files
    /\ config_env_config # None
    /\ config_env_config.v.value = TomlDocuments[TextInline]

\* The provenance of a source that is there
SourceOf(option) == option.v.source

\* C15 as stated: the table of the dotenv file is tagged DotEnv(dotenv_path),
\* the value of the config variable Environment naming config_variable_name,
\* the value of the explicit file File(config_path), and the merged config
\* of two sources Merged of their two provenances.
C15_AsStated ==
    /\ dotenv_config # None => SourceOf(dotenv_config) = DotEnv(args.dotenv_path)
    /\ config_env_config # None =>
         SourceOf(config_env_config) = Environment({args.config_variable_name})
    /\ file_config # None => SourceOf(file_config) = File(args.config_path.v)
    /\ (pc = Following("merge_dotenv") /\ dotenv_config # None /\ config_env_config # None) =>
         SourceOf(config) = Merged(SourceOf(dotenv_config), SourceOf(config_env_config))

\* C16 as stated: the Environment provenance of the mapper's tree names
\* every variable whose value was inserted into the tree, auto-discovered
\* ones included, and no variable that is unset.
C16_AsStated ==
    Mapped =>
      /\ SourceOf(env_config).kind = "Environment"
      /\ (DOMAIN effective_map \cap DOMAIN env) \subseteq SourceOf(env_config).variable_names
      /\ SourceOf(env_config).variable_names \subseteq DOMAIN env

(***************************************************************************)
(* Failure and frame of insert_toml_value (SpecInsert)                     *)
(***************************************************************************)
\* The last call returned an InsertTomlValueError.
Failed == Called /\ last.res.kind \in InsertTomlValueErrors

\* C17 as stated: when insert returns an InsertTomlValueError, the tree is
\* exactly as it was before the call.
C17_AsStated == Failed => tree = Before

\* C17 amended: when insert returns TablePropertyCannotIndex or
\* ArrayIndexCannotIndex the tree is exactly as before the call; when it
\* returns ArrayOutOfBounds the tree is as before, or as before with the
\* containers auto-created along the path up to the new empty array whose
\* index was out of bounds (inserting at "a.1" into an empty table leaves
\* {a = []}).
C17_FailedInsert ==
    Failed =>
      /\ last.res.kind # "ArrayOutOfBounds" => tree = Before
      /\ last.res.kind = "ArrayOutOfBounds" =>
           \/ tree = Before
           \/ \E k \in 1..(Len(last.path) - 1) :
                 /\ resolve(Prefix(last.path, k), Before) = None
                 /\ last.path[k + 1].kind = "ArrayIndex"
                 /\ last.res.array = <<>>
                 /\ insert_toml_value(Before, Prefix(last.path, k), Array(<<>>)) =
                      [res |-> Ok, val |-> tree]

C17_Witness ==
    /\ Failed
    /\ Before = Table(EmptyTable)
    /\ last.path = <<[kind |-> "TableProperty", name |-> <<"a">>],
                     [kind |-> "ArrayIndex", index |-> 1]>>
    /\ last.res.kind = "ArrayOutOfBounds"
    /\ tree = Table(<<"a">> :> Array(<<>>))

\* The locations tried: one segment longer than the paths inserted at
FramePaths == SeqsUpTo(InsertElements, MaxPathLen + 1)

\* C18: after a successful insert at p, every location that resolved before
\* the call and is neither a prefix nor an extension of p resolves to the
\* same value: no sibling key is lost, no array element changes its index.
C18_InsertFrame ==
    Succeeded =>
      \A q \in FramePaths :
         (/\ resolve(q, Before) # None
          /\ ~IsPrefixOf(q, last.path)
          /\ ~IsPrefixOf(last.path, q))
           => resolve(q, tree) = resolve(q, Before)

\* An element of an array is replaced, the one after it stays where it was.
C18_Witness ==
    /\ Succeeded
    /\ Before = Array(<<String(<<"p">>), String(<<"q">>)>>)
    /\ last.path = <<[kind |-> "ArrayIndex", index |-> 0]>>
    /\ resolve(last.path, tree) # resolve(last.path, Before)
    /\ resolve(<<[kind |-> "ArrayIndex", index |-> 1]>>, tree) = Some(String(<<"q">>))
    /\ Len(tree.v) = 2

(***************************************************************************)
(* Properties of the mapper's tree and of the order of reads (Spec)        *)
(***************************************************************************)
\* C19 as stated: whatever the key paths of map_env and the names
\* discovered, the empty KeyPath included, the tree the mapper returns has
\* a Table at its root.
C19_AsStated == Mapped => IsTable(env_config.v.value)

\* The value the config variable source has when the variable is read in
\* the environment e, Err when the read fails
SourceValueIn(e) ==
    IF args.config_variable_name \notin DOMAIN e THEN None
    ELSE IF e[args.config_variable_name] \in DOMAIN TomlDocuments
    THEN Some(TomlDocuments[e[args.config_variable_name]])
    ELSE IF /\ e[args.config_variable_name] \in DOMAIN files
            /\ files[e[args.config_variable_name]] \in DOMAIN TomlDocuments
    THEN Some(TomlDocuments[files[e[args.config_variable_name]]])
    ELSE Err

\* The value of a source, without its provenance
ValueOf(option) == IF option = None THEN None ELSE Some(option.v.value)

\* C20: the config variable is read before the dotenv file exports its
\* scalars: a scalar entry named config_variable_name is written to the
\* environment, and the config variable source of that call is the one of
\* the environment the call began with (None if the variable was unset);
\* a later call begins with the exported value.
C20_ReadBeforeExport ==
    /\ (ConfigVariableRead \/ DotenvReturned) =>
          ValueOf(config_env_config) = SourceValueIn(entry_env)
    /\ (DotenvReturned /\ args.config_variable_name \in DOMAIN DotenvScalars) =>
          /\ args.config_variable_name \in DOMAIN env
          /\ env[args.config_variable_name] =
               ValueToString(DotenvScalars[args.config_variable_name])

\* The variable was unset when the call began, the dotenv file has set it
\* and the call has no config variable source.
C20_Witness ==
    /\ DotenvReturned
    /\ invocation = 1
    /\ args.config_variable_name \in DOMAIN DotenvScalars
    /\ args.config_variable_name \notin DOMAIN entry_env
    /\ env[args.config_variable_name] = VarPath
    /\ config_env_config = None

=============================================================================
